---------------------------- MODULE Spec2Model ----------------------------
(* Majordome Foyer: the task catalog (tables piece, tache, regle, action),  *)
(* the handlers of API/serveur_majordome.py, the YAML import of             *)
(* API/import_yaml.py, and the eligibility evaluator _analyser_tache.       *)
EXTENDS Integers, Sequences, FiniteSets, TLC

VARIABLES
    schema,      \* how the table regle, created outside this code, refers to tache
    piece,       \* table piece: the set of room names
    tache,       \* table tache: id_tache -> row
    regle,       \* table regle: id_tache -> row (at most one rule per task)
    action,      \* table action: set of [id_tache, horodatage]
    prochainId,  \* the id_tache sequence
    now,         \* the clock, in hours
    reponse,     \* the last request's answer; for an audit: rows, context, verdicts, priorities
    sommeil,     \* history: one-off tasks completed and not activated since
    reveil,      \* history: tasks of sommeil activated and not completed since
    eval,        \* evaluator runs: the input and verdict of _analyser_tache
    meteo        \* context-builder runs: the provider's answer and ctx_meteo

vars == <<schema, piece, tache, regle, action, prochainId, now,
          reponse, sommeil, reveil, eval, meteo>>

(***************************************************************************)
(* Optional values (Python None / SQL NULL): None is <<>>, a value v is     *)
(* <<v>>.                                                                   *)
(***************************************************************************)
None == <<>>
Some(v) == <<v>>
Val(o) == o[1]

\* Python's "x or d" on an Optional[int]: None and 0 are both falsy.
OrDefaut(o, d) == IF o = None \/ Val(o) = 0 THEN d ELSE Val(o)

\* SQL COALESCE(a, b): the first non-NULL value.
Coalesce(a, b) == IF a # None THEN a ELSE b

(***************************************************************************)
(* Text.  A string is a sequence of one-character strings, so that lower(), *)
(* substring tests and ordering are computed and not assumed.               *)
(***************************************************************************)
\* The space and the ASCII letters, in code point order.
Alphabet == <<" ",
              "A", "B", "C", "D", "E", "F", "G", "H", "I", "J", "K", "L", "M",
              "N", "O", "P", "Q", "R", "S", "T", "U", "V", "W", "X", "Y", "Z",
              "a", "b", "c", "d", "e", "f", "g", "h", "i", "j", "k", "l", "m",
              "n", "o", "p", "q", "r", "s", "t", "u", "v", "w", "x", "y", "z">>

LettresMajuscules == <<"A", "B", "C", "D", "E", "F", "G", "H", "I", "J", "K", "L", "M",
                       "N", "O", "P", "Q", "R", "S", "T", "U", "V", "W", "X", "Y", "Z">>

LettresMinuscules == <<"a", "b", "c", "d", "e", "f", "g", "h", "i", "j", "k", "l", "m",
                       "n", "o", "p", "q", "r", "s", "t", "u", "v", "w", "x", "y", "z">>

Majuscules == {LettresMajuscules[i] : i \in 1..Len(LettresMajuscules)}

MinusculeDe ==
    [c \in Majuscules |->
        LettresMinuscules[CHOOSE i \in 1..Len(LettresMajuscules) : LettresMajuscules[i] = c]]

MajusculeDe ==
    [c \in {LettresMinuscules[i] : i \in 1..Len(LettresMinuscules)} |->
        LettresMajuscules[CHOOSE i \in 1..Len(LettresMinuscules) : LettresMinuscules[i] = c]]

\* str.lower()
Lower(s) == [i \in 1..Len(s) |-> IF s[i] \in Majuscules THEN MinusculeDe[s[i]] ELSE s[i]]

\* str.capitalize(): first character upper-cased, the rest lower-cased.
Capitalize(s) ==
    [i \in 1..Len(s) |->
        IF i = 1
        THEN (IF s[i] \in DOMAIN MajusculeDe THEN MajusculeDe[s[i]] ELSE s[i])
        ELSE (IF s[i] \in Majuscules THEN MinusculeDe[s[i]] ELSE s[i])]

\* Python's "sub in s" on strings.
Contient(s, sub) ==
    \E i \in 1..(Len(s) - Len(sub) + 1) : SubSeq(s, i, i + Len(sub) - 1) = sub

\* Code point order of the characters in use.
CodeCar(c) == CHOOSE i \in 1..Len(Alphabet) : Alphabet[i] = c

\* s < t in the lexicographic (code point) order of strings.
TexteAvant(s, t) ==
    \E k \in 1..(Len(s) + 1) :
        /\ k <= Len(t)
        /\ \A i \in 1..(k - 1) : s[i] = t[i]
        /\ (k = Len(s) + 1 \/ CodeCar(s[k]) < CodeCar(t[k]))

(***************************************************************************)
(* JOURS_MAP                                                                *)
(***************************************************************************)
JOURS_MAP ==
       (<<"l","u","n","d","i">> :> 0)
    @@ (<<"m","a","r","d","i">> :> 1)
    @@ (<<"m","e","r","c","r","e","d","i">> :> 2)
    @@ (<<"j","e","u","d","i">> :> 3)
    @@ (<<"v","e","n","d","r","e","d","i">> :> 4)
    @@ (<<"s","a","m","e","d","i">> :> 5)
    @@ (<<"d","i","m","a","n","c","h","e">> :> 6)

(***************************************************************************)
(* _analyser_tache                                                          *)
(***************************************************************************)
SentinelleJamais == 999
ScoreJourJ == 1000
ScoreReactivee == 900
HeureNuitDebut == 20
HeureNuitFin == 7
MoisHiver == {12, 1, 2}
PoidsHygiene == 10
PoidsRetard == 5

Arros == <<"a","r","r","o","s">>
Tondre == <<"t","o","n","d","r","e">>

Verdict(vis, sc, msg, arg, ech, echArg) ==
    [visible |-> vis, score |-> sc, raison |-> [msg |-> msg, arg |-> arg],
     echeance |-> [msg |-> ech, arg |-> echArg]]

\* 0. Activation: "active is False"; a NULL active (no regle row) passes.
PorteSommeil(t) == t.active = Some(FALSE)

\* Mutant: the night starts one hour late.
EstNuitTardive(heure) == heure > HeureNuitDebut \/ heure < HeureNuitFin

\* 1. Nuit
EstNuit(heure) == heure >= HeureNuitDebut \/ heure < HeureNuitFin
PorteNuit(t, heure) == t.eviter_nuit /\ EstNuit(heure)

\* 2. Hiver
PorteHiver(t, mois) ==
    /\ mois \in MoisHiver
    /\ (Contient(Lower(t.nom), Arros) \/ Contient(Lower(t.nom), Tondre))
    /\ t.eviter_gel

\* 3. Meteo
PortePluie(t, cm) == t.eviter_pluie /\ cm.pluie
PorteVent(t, cm) == t.eviter_vent /\ cm.vent
PorteGel(t, cm) == t.eviter_gel /\ cm.gel

\* 4. Jour specifique: (jour_semaine or "").lower()
JourCibleStr(t) == Lower(IF t.jour_semaine = None THEN <<>> ELSE Val(t.jour_semaine))
EstEpingle(t) == JourCibleStr(t) \in DOMAIN JOURS_MAP

\* Mutant: the difference of the indices without the wrap around the week.
DeltaJourSansModulo(cible, actuel) == cible - actuel

DeltaJour(cible, actuel) ==
    LET d == (cible - actuel) % 7 IN IF d = 0 THEN 7 ELSE d

AnalyseJour(t, jour) ==
    LET s == JourCibleStr(t)
        idx == JOURS_MAP[s]
    IN  IF idx # jour
        THEN Verdict(FALSE, 0, "Planifie pour {}.", <<Capitalize(s)>>,
                     "Dans {} jours ({})", <<DeltaJour(idx, jour), s>>)
        ELSE Verdict(TRUE, ScoreJourJ, "C'est le jour J ({}) !", <<s>>,
                     "Aujourd'hui", <<>>)

\* 5. Calcul historique et retard
EstPonctuelle(intervalle) == intervalle = None \/ Val(intervalle) = 0

ScoreBase(t) == OrDefaut(t.priorite_base, 0) + OrDefaut(t.priorite_hygiene, 0) * PoidsHygiene

\* Mutant: the "done today" test of the recurring branch applies to one-off tasks.
AnalysePonctuelleFaiteAujourdhui(t) ==
    IF t.jours_ecoules = None
    THEN Verdict(TRUE, ScoreBase(t), "Jamais fait (Ponctuel)", <<>>, "Des que possible", <<>>)
    ELSE IF Val(t.jours_ecoules) = 0
    THEN Verdict(FALSE, 0, "Deja fait aujourd'hui.", <<>>, "Inconnue", <<>>)
    ELSE Verdict(TRUE, ScoreReactivee, "Ponctuelle reactivee", <<>>, "Inconnue", <<>>)

AnalysePonctuelle(t) ==
    IF t.jours_ecoules = None
    THEN Verdict(TRUE, ScoreBase(t), "Jamais fait (Ponctuel)", <<>>, "Des que possible", <<>>)
    ELSE Verdict(TRUE, ScoreReactivee, "Ponctuelle reactivee", <<>>, "Inconnue", <<>>)

DejaFaitAujourdhui(t) == t.jours_ecoules # None /\ Val(t.jours_ecoules) = 0

\* Mutant: a task never completed counts as completed today.
JoursEffectifsSansSentinelle(t) == IF t.jours_ecoules # None THEN Val(t.jours_ecoules) ELSE 0

JoursEffectifs(t) == IF t.jours_ecoules # None THEN Val(t.jours_ecoules) ELSE SentinelleJamais

Retard(t) == JoursEffectifs(t) - Val(t.intervalle)

Abs(n) == IF n < 0 THEN 0 - n ELSE n

\* Mutant: a task exactly at its interval is not yet due.
AnalyseRecurrenteStricte(t) ==
    IF DejaFaitAujourdhui(t)
    THEN Verdict(FALSE, 0, "Deja fait aujourd'hui.", <<>>, "Dans {} jours", <<Val(t.intervalle)>>)
    ELSE IF Retard(t) <= 0
    THEN Verdict(FALSE, 0, "A jour (Fait il y a {}j).", t.jours_ecoules,
                 "Dans {} jours", <<Abs(Retard(t))>>)
    ELSE Verdict(TRUE, ScoreBase(t) + Retard(t) * PoidsRetard,
                 "En retard de {} jours.", <<Retard(t)>>, "Maintenant", <<>>)

AnalyseRecurrente(t) ==
    IF DejaFaitAujourdhui(t)
    THEN Verdict(FALSE, 0, "Deja fait aujourd'hui.", <<>>, "Dans {} jours", <<Val(t.intervalle)>>)
    ELSE IF Retard(t) < 0
    THEN Verdict(FALSE, 0, "A jour (Fait il y a {}j).", t.jours_ecoules,
                 "Dans {} jours", <<Abs(Retard(t))>>)
    ELSE Verdict(TRUE, ScoreBase(t) + Retard(t) * PoidsRetard,
                 "En retard de {} jours.", <<Retard(t)>>, "Maintenant", <<>>)

\* ctx = [meteo |-> [pluie, vent, gel], jour, heure, mois]
AnalyserTache(t, ctx) ==
    IF PorteSommeil(t)
    THEN Verdict(FALSE, 0, "Tache ponctuelle en sommeil (deja faite).", <<>>, "Sur demande", <<>>)
    ELSE IF PorteNuit(t, ctx.heure)
    THEN Verdict(FALSE, 0, "Reporte : Il fait nuit.", <<>>, "Demain matin", <<>>)
    ELSE IF PorteHiver(t, ctx.mois)
    THEN Verdict(FALSE, 0, "Reporte : Saison hivernale.", <<>>, "Printemps", <<>>)
    ELSE IF PortePluie(t, ctx.meteo)
    THEN Verdict(FALSE, 0, "Reporte : Il pleut.", <<>>, "Des qu'il fait beau", <<>>)
    ELSE IF PorteVent(t, ctx.meteo)
    THEN Verdict(FALSE, 0, "Reporte : Trop de vent.", <<>>, "Inconnue", <<>>)
    ELSE IF PorteGel(t, ctx.meteo)
    THEN Verdict(FALSE, 0, "Reporte : Risque de gel.", <<>>, "Inconnue", <<>>)
    ELSE IF EstEpingle(t)
    THEN AnalyseJour(t, ctx.jour)
    ELSE IF EstPonctuelle(t.intervalle)
    THEN AnalysePonctuelle(t)
    ELSE AnalyseRecurrente(t)


(***************************************************************************)
(* Context builder: _get_meteo_data and the first lines of audit_global.    *)
(* The provider's answer is Echec (any exception) or the "daily" object,    *)
(* a record of three keys; a key is None when missing, else Some(x) with x  *)
(* the first element of its list (itself None for a JSON null).             *)
(***************************************************************************)
Echec == [ok |-> FALSE]
Succes(d) == [ok |-> TRUE, daily |-> d]
DailyVide == [precipitation_sum |-> None, windspeed_10m_max |-> None,
              temperature_2m_min |-> None]

SeuilPluie == 2
SeuilVent == 50
SeuilGel == 2
DefautPluie == 0
DefautVent == 0
DefautTmin == 10

\* _get_meteo_data: {} on any failure, else the "daily" object.
GetMeteoData(fourni) == IF fourni.ok THEN fourni.daily ELSE DailyVide

\* meteo_raw.get(cle, [defaut])[0] or defaut
PremierOu(champ, defaut) ==
    LET premier == IF champ = None THEN Some(defaut) ELSE Val(champ)
    IN  OrDefaut(premier, defaut)

LirePluie(raw) == PremierOu(raw.precipitation_sum, DefautPluie)
LireVent(raw) == PremierOu(raw.windspeed_10m_max, DefautVent)
LireTmin(raw) == PremierOu(raw.temperature_2m_min, DefautTmin)

\* ctx_meteo of audit_global; lat is "cfg.get('lat')" being truthy.
ContexteMeteo(lat, fourni) ==
    LET raw == IF lat THEN GetMeteoData(fourni) ELSE DailyVide
    IN  [pluie |-> LirePluie(raw) > SeuilPluie,
         vent  |-> LireVent(raw) > SeuilVent,
         gel   |-> LireTmin(raw) < SeuilGel]

(***************************************************************************)
(* Clock.  now counts hours since 00:00 local time of Monday 28 February     *)
(* 2022, so that a run crosses a day, a weekday and the end of winter;      *)
(* datetime.now() and the database session are taken in the household's     *)
(* zone (Europe/Paris).                                                     *)
(***************************************************************************)
HeureDebut == 8
PasHorloge == 24

\* datetime.now().weekday(), .hour, .month
JourIndex(h) == (h \div 24) % 7
HeureDuJour(h) == h % 24
MoisDuJour(h) == IF h \div 24 < 1 THEN 2 ELSE 3

\* EXTRACT(DAY FROM (NOW() AT TIME ZONE 'Europe/Paris') - date_derniere)::int :
\* the days field of the interval, i.e. the whole 24-hour periods elapsed.
JoursEcoules(maintenant, derniere) == (maintenant - derniere) \div 24

(***************************************************************************)
(* Catalog rows                                                             *)
(***************************************************************************)
PrioriteBaseDefaut == 50

Max(S) == CHOOSE x \in S : \A y \in S : y <= x

\* DerniereAction: MAX(horodatage_utc) per task over the 'faite' actions.
DateDerniere(acts, id) ==
    LET hs == {a.horodatage : a \in {b \in acts : b.id_tache = id}}
    IN  IF hs = {} THEN None ELSE Some(Max(hs))

\* One row of the audit query: tache JOIN piece LEFT JOIN regle LEFT JOIN DerniereAction.
LigneAudit(ts, rs, acts, maintenant, id) ==
    LET t == ts[id]
        aRegle == id \in DOMAIN rs
        dd == DateDerniere(acts, id)
    IN  [id_tache |-> id,
         nom |-> t.nom,
         piece |-> t.piece,
         intervalle |-> Coalesce(IF aRegle THEN rs[id].intervalle_jours ELSE None, t.interval_jours),
         jour_semaine |-> IF aRegle THEN rs[id].jour_semaine ELSE None,
         priorite_base |-> Coalesce(IF aRegle THEN rs[id].priorite_base ELSE None,
                                    Some(PrioriteBaseDefaut)),
         active |-> IF aRegle THEN rs[id].active ELSE None,
         priorite_hygiene |-> Some(t.priorite_hygiene),
         eviter_pluie |-> t.eviter_pluie,
         eviter_vent |-> t.eviter_vent,
         eviter_neige |-> t.eviter_neige,
         eviter_gel |-> t.eviter_gel,
         eviter_nuit |-> t.eviter_nuit,
         jours_ecoules |-> IF dd = None THEN None ELSE Some(JoursEcoules(maintenant, Val(dd)))]

(***************************************************************************)
(* Ranker: the loop, sort and truncation of audit_global.                   *)
(***************************************************************************)
LimiteAudit == 10

Element(ligne, analyse) ==
    [tache |-> ligne.nom, piece |-> ligne.piece, score |-> analyse.score,
     raison |-> analyse.raison,
     type |-> IF ligne.intervalle = None THEN "Ponctuelle" ELSE "Recurrente"]

\* Mutant: every row is kept.
GarderTout(analyse) == TRUE

\* "if analyse['visible']: resultats.append(...)"
Garder(analyse) == analyse.visible

RECURSIVE Filtrer(_, _)
Filtrer(lignes, analyses) ==
    IF lignes = <<>> THEN <<>>
    ELSE LET reste == Filtrer(Tail(lignes), Tail(analyses))
         IN  IF Garder(Head(analyses))
             THEN <<Element(Head(lignes), Head(analyses))>> \o reste
             ELSE reste

\* Mutant: ascending scores.
PrecedeCroissant(a, b) == a.score < b.score

\* Mutant: an unstable sort, the later of two equal rows first.
PrecedeOuEgale(a, b) == a.score >= b.score

\* Sort key of resultats.sort(key=score, reverse=True): a goes before b.
Precede(a, b) == a.score > b.score

\* list.sort is stable, also with reverse=True: insertion after every element
\* that is not strictly preceded by x keeps equal elements in their order.
RECURSIVE Inserer(_, _)
Inserer(x, s) ==
    IF s = <<>> THEN <<x>>
    ELSE IF Precede(x, Head(s)) THEN <<x>> \o s
    ELSE <<Head(s)>> \o Inserer(x, Tail(s))

RECURSIVE TriStable(_)
TriStable(s) ==
    IF s = <<>> THEN <<>>
    ELSE LET n == Len(s)
         IN  Inserer(s[n], TriStable(SubSeq(s, 1, n - 1)))

\* "limite = len(resultats) if piece else 10": an empty piece is no filter.
Tronquer(s, filtre) ==
    LET limite == IF filtre # None /\ Val(filtre) # <<>> THEN Len(s) ELSE LimiteAudit
    IN  SubSeq(s, 1, IF limite < Len(s) THEN limite ELSE Len(s))

Priorites(lignes, analyses, filtre) == Tronquer(TriStable(Filtrer(lignes, analyses)), filtre)


(***************************************************************************)
(* Inputs: room names, task names, request bodies, YAML zones.              *)
(***************************************************************************)
Jardin == <<"J","a","r","d","i","n">>
Cuisine == <<"C","u","i","s","i","n","e">>
Cave == <<"C","a","v","e">>

NomArroser == <<"A","r","r","o","s","e","r">>
NomTondre == <<"T","o","n","d","r","e">>
NomVitres == <<"V","i","t","r","e","s">>
NomPoubelles == <<"P","o","u","b","e","l","l","e","s">>
NomFour == <<"F","o","u","r">>

Ponctuelle == <<"P","o","n","c","t","u","e","l","l","e">>
ponctuelle == <<"p","o","n","c","t","u","e","l","l","e">>
hebdomadaire == <<"h","e","b","d","o","m","a","d","a","i","r","e">>
mensuelle == <<"m","e","n","s","u","e","l","l","e">>
quotidienne == <<"q","u","o","t","i","d","i","e","n","n","e">>
occasionnelle == <<"o","c","c","a","s","i","o","n","n","e","l","l","e">>

Mardi == <<"M","a","r","d","i">>
Lundi == <<"L","u","n","d","i">>
friday == <<"f","r","i","d","a","y">>

\* A NouvelleTache body, with the model's defaults for the fields left out.
NouvelleTache(p, t, f, i, j) ==
    [piece |-> p, tache |-> t, frequence |-> f, interval_jours |-> i,
     priorite_hygiene |-> 3, periodicite |-> None, regle_intervalle_jours |-> None,
     jour_semaine |-> j, priorite_base |-> 50,
     eviter_pluie |-> FALSE, eviter_vent |-> FALSE, eviter_neige |-> FALSE,
     eviter_gel |-> FALSE, eviter_nuit |-> FALSE]

CorpsTaches ==
    { [NouvelleTache(Jardin, NomArroser, Ponctuelle, Some(3), None)
          EXCEPT !.eviter_pluie = TRUE, !.eviter_gel = TRUE],
      NouvelleTache(Cuisine, NomVitres, hebdomadaire, Some(1), None),
      [NouvelleTache(Cuisine, NomPoubelles, hebdomadaire, Some(2), Some(Mardi))
          EXCEPT !.priorite_base = 60],
      [NouvelleTache(Jardin, NomTondre, mensuelle, Some(0 - 1), Some(friday))
          EXCEPT !.priorite_hygiene = 4],
      NouvelleTache(Cave, NomFour, mensuelle, Some(1), None) }

\* A zone of the YAML file with its room; a key left out of the file is None.
Zone(p, t, f, i) ==
    [piece |-> p, nom |-> t, frequence |-> f, interval_jours |-> i,
     priorite_hygiene |-> None, eviter_pluie |-> None, eviter_vent |-> None,
     eviter_neige |-> None, eviter_gel |-> None, eviter_nuit |-> None]

\* The YAML files imported: a file is the sequence of its zones.
Fichiers ==
    { <<Zone(Cuisine, NomVitres, Some(occasionnelle), None)>>,
      <<Zone(Cuisine, NomVitres, Some(<<>>), None), Zone(Jardin, NomArroser, None, Some(0))>> }

\* What a run explores: the size of the catalog and of its history (tasks,
\* action rows and steps of the clock, together), of which the values drawn
\* from the id_tache sequence are at most half.
MaxTaille == 4
MaxId == MaxTaille \div 2

(***************************************************************************)
(* import_yaml.py                                                           *)
(***************************************************************************)
MAP_INTERVAL ==
       (quotidienne :> Some(1))
    @@ (<<"p","l","u","r","i","h","e","b","d","o","m","a","d","a","i","r","e">> :> Some(3))
    @@ (hebdomadaire :> Some(7))
    @@ (<<"b","i","m","e","n","s","u","e","l","l","e">> :> Some(14))
    @@ (mensuelle :> Some(30))
    @@ (<<"s","a","i","s","o","n","n","i","e","r","e">> :> Some(90))
    @@ (occasionnelle :> None)

\* get_interval(frequence, interval_jours_yaml)
GetInterval(frequence, intervalYaml) ==
    IF intervalYaml # None THEN intervalYaml
    ELSE IF frequence = <<>> THEN None
    ELSE IF Lower(frequence) \in DOMAIN MAP_INTERVAL THEN MAP_INTERVAL[Lower(frequence)]
    ELSE None

KW_NIGHT_AVOID ==
    { <<"v","i","t","r","e">>, <<"f","e","n","e","t","r">>, <<"f","e","n","e^","t","r","e">>,
      <<"j","a","r","d","i","n">>, <<"t","e","r","r","a","s","s","e">>,
      <<"g","a","r","a","g","e">> }
KW_TRASH_ALLOW ==
    { <<"p","o","u","b","e","l","l">>, <<"o","r","d","u","r","e">>,
      <<"d","e","c","h","e","t">>, <<"d","e'","c","h","e","t">>,
      <<"r","e","c","y","c","l">> }
KW_PIECE_EXTERIEURE ==
    { <<"e","x","t","e'","r","i","e","u","r">>, <<"e","x","t","e","r">>,
      <<"g","a","r","a","g","e">>, <<"j","a","r","d","i","n">>,
      <<"t","e","r","r","a","s","s","e">> }

\* guess_eviter_nuit(piece_nom, tache_nom)
GuessEviterNuit(pieceNom, tacheNom) ==
    LET p == Lower(pieceNom)
        t == Lower(tacheNom)
    IN  IF \E k \in KW_TRASH_ALLOW : Contient(t, k) THEN FALSE
        ELSE IF \E k \in KW_PIECE_EXTERIEURE : Contient(p, k) THEN TRUE
        ELSE IF \E k \in KW_NIGHT_AVOID : Contient(t, k) THEN TRUE
        ELSE FALSE

\* bool(z.get(cle, defaut))
OuDefautBool(o, d) == IF o = None THEN d ELSE Val(o)

\* The tache row main() builds from one zone.
LigneDeZone(z) ==
    LET frequence == Lower(IF z.frequence = None \/ Val(z.frequence) = <<>>
                           THEN occasionnelle ELSE Val(z.frequence))
        interval == IF z.interval_jours = None
                    THEN GetInterval(frequence, None) ELSE z.interval_jours
    IN  [nom |-> z.nom, piece |-> z.piece, frequence |-> frequence,
         interval_jours |-> interval,
         priorite_hygiene |-> IF z.priorite_hygiene = None THEN 3 ELSE Val(z.priorite_hygiene),
         eviter_pluie |-> OuDefautBool(z.eviter_pluie, FALSE),
         eviter_vent |-> OuDefautBool(z.eviter_vent, FALSE),
         eviter_neige |-> OuDefautBool(z.eviter_neige, FALSE),
         eviter_gel |-> OuDefautBool(z.eviter_gel, FALSE),
         eviter_nuit |-> OuDefautBool(z.eviter_nuit, GuessEviterNuit(z.piece, z.nom))]

\* No request is in progress: the last answer has been sent.
ReponseAucune == [type |-> "aucune"]
ReponseOk == [type |-> "ok"]
ReponseErreur == [type |-> "erreur"]

\* The ids of the tache rows with this room and exactly this name.
IdsDe(ts, p, n) == {id \in DOMAIN ts : ts[id].piece = p /\ ts[id].nom = n}

\* The tasks that have a row in tache or in regle, the action rows and the
\* steps the clock has made.
Taille ==
    Cardinality(DOMAIN tache \cup DOMAIN regle) + Cardinality(action)
        + (now - HeureDebut) \div PasHorloge

\* One turn of the zone loop on the tables [tache, prochainId]: the INSERT
\* draws a value of the id_tache sequence before the conflict on
\* (id_piece, nom) is detected, so the sequence advances whether the row is
\* inserted or updated in place.  A zone without name is skipped.
ImporterZone(etat, z) ==
    LET ligne == LigneDeZone(z)
        ids == IdsDe(etat.tache, z.piece, z.nom)
    IN  IF z.nom = <<>> THEN etat
        ELSE [tache |-> IF ids = {}
                        THEN (etat.prochainId :> ligne) @@ etat.tache
                        ELSE [id \in DOMAIN etat.tache |->
                                 IF id \in ids THEN ligne ELSE etat.tache[id]],
              prochainId |-> etat.prochainId + 1]

RECURSIVE ImporterZones(_, _)
ImporterZones(etat, zones) ==
    IF zones = <<>> THEN etat
    ELSE ImporterZones(ImporterZone(etat, Head(zones)), Tail(zones))

\* main() on a file: its rooms are upserted, then its zones in the order of
\* the file, in one transaction; no regle row is written.
ImportYaml(fichier) ==
    LET apres == ImporterZones([tache |-> tache, prochainId |-> prochainId], fichier)
    IN  /\ reponse = ReponseAucune
        /\ Taille + Cardinality(DOMAIN apres.tache) - Cardinality(DOMAIN tache) <= MaxTaille
        /\ apres.prochainId <= MaxId + 1
        /\ piece' = piece \cup {fichier[i].piece : i \in 1..Len(fichier)}
        /\ tache' = apres.tache
        /\ prochainId' = apres.prochainId
        /\ reponse' = ReponseOk
        /\ UNCHANGED <<schema, regle, action, now, sommeil, reveil, eval, meteo>>

(***************************************************************************)
(* POST /taches                                                             *)
(***************************************************************************)
\* final_int of creer_tache
FinalInt(nouvelle) ==
    IF Lower(nouvelle.frequence) = ponctuelle THEN None ELSE nouvelle.interval_jours

ReglePer(nouvelle) ==
    IF Lower(nouvelle.frequence) = ponctuelle THEN ponctuelle
    ELSE IF nouvelle.periodicite # None /\ nouvelle.periodicite # Some(<<>>)
         THEN Val(nouvelle.periodicite) ELSE nouvelle.frequence

\* The request is refused: unknown room, or a task of the room with the same
\* name up to case.
CreationRefusee(nouvelle) ==
    \/ nouvelle.piece \notin piece
    \/ \E id \in DOMAIN tache :
          tache[id].piece = nouvelle.piece /\ Lower(tache[id].nom) = Lower(nouvelle.tache)

CreerTache(nouvelle) ==
    /\ reponse = ReponseAucune
    /\ IF CreationRefusee(nouvelle)
       THEN /\ reponse' = ReponseErreur
            /\ UNCHANGED <<tache, regle, prochainId>>
       ELSE /\ Taille < MaxTaille
            /\ prochainId <= MaxId
            /\ tache' = (prochainId :>
                           [nom |-> nouvelle.tache, piece |-> nouvelle.piece,
                            frequence |-> nouvelle.frequence,
                            interval_jours |-> FinalInt(nouvelle),
                            priorite_hygiene |-> nouvelle.priorite_hygiene,
                            eviter_pluie |-> nouvelle.eviter_pluie,
                            eviter_vent |-> nouvelle.eviter_vent,
                            eviter_neige |-> nouvelle.eviter_neige,
                            eviter_gel |-> nouvelle.eviter_gel,
                            eviter_nuit |-> nouvelle.eviter_nuit]) @@ tache
            /\ regle' = (prochainId :>
                           [periodicite |-> ReglePer(nouvelle),
                            intervalle_jours |-> FinalInt(nouvelle),
                            jour_semaine |-> nouvelle.jour_semaine,
                            priorite_base |-> Some(nouvelle.priorite_base),
                            active |-> Some(TRUE)]) @@ regle
            /\ prochainId' = prochainId + 1
            /\ reponse' = ReponseOk
    /\ UNCHANGED <<schema, piece, action, now, sommeil, reveil, eval, meteo>>


(***************************************************************************)
(* PUT /taches/{id_tache}/activer                                           *)
(***************************************************************************)
\* UPDATE regle SET active = TRUE WHERE id_tache = id
ReglesActivees(rs, id) ==
    [i \in DOMAIN rs |-> IF i = id THEN [rs[i] EXCEPT !.active = Some(TRUE)] ELSE rs[i]]

ActiverTache(id) ==
    /\ reponse = ReponseAucune
    /\ regle' = ReglesActivees(regle, id)
    /\ reveil' = IF id \in sommeil THEN reveil \cup {id} ELSE reveil
    /\ sommeil' = sommeil \ {id}
    /\ reponse' = ReponseOk
    /\ UNCHANGED <<schema, piece, tache, action, prochainId, now, eval, meteo>>

(***************************************************************************)
(* DELETE /taches/{id_tache}                                                *)
(***************************************************************************)
\* The table regle is written by creer_tache, activer_tache and
\* enregistrer_action and read by the audit, but no statement of the code
\* creates it: what a DELETE on tache does to the rule of the task depends on
\* a schema the code does not fix.  Its id_tache column is one of
\*   "cascade"   : REFERENCES tache ON DELETE CASCADE, the rule goes with the task;
\*   "restreint" : REFERENCES tache with no ON DELETE clause, the DELETE of a
\*                 task that has a rule raises, the handler answers 500;
\*   "libre"     : no foreign key, the rule stays behind (nothing joins it
\*                 again: ids are not reused; ON DELETE SET NULL reads the same).
SchemasRegle == {"cascade", "restreint", "libre"}

\* DELETE FROM tache WHERE id_tache = id RETURNING nom.  An unknown id raises
\* the 404 inside the try, answered as an error.  The actions of the task go
\* with it (action.id_tache ... ON DELETE CASCADE).
SupprimerTache(id) ==
    /\ reponse = ReponseAucune
    /\ IF id \notin DOMAIN tache \/ (schema = "restreint" /\ id \in DOMAIN regle)
       THEN /\ reponse' = ReponseErreur
            /\ UNCHANGED <<tache, regle, action, sommeil, reveil>>
       ELSE /\ tache' = [i \in DOMAIN tache \ {id} |-> tache[i]]
            /\ regle' = IF schema = "cascade"
                        THEN [i \in DOMAIN regle \ {id} |-> regle[i]]
                        ELSE regle
            /\ action' = {a \in action : a.id_tache # id}
            /\ sommeil' = sommeil \ {id}
            /\ reveil' = reveil \ {id}
            /\ reponse' = ReponseOk
    /\ UNCHANGED <<schema, piece, prochainId, now, eval, meteo>>

(***************************************************************************)
(* POST /actions                                                            *)
(***************************************************************************)
\* "if t['interval_jours'] is None or t['interval_jours'] == 0"
CompletionEndort(t) == t.interval_jours = None \/ Val(t.interval_jours) = 0

\* UPDATE regle SET active = FALSE WHERE id_tache = id
ReglesEndormies(rs, id) ==
    [i \in DOMAIN rs |-> IF i = id THEN [rs[i] EXCEPT !.active = Some(FALSE)] ELSE rs[i]]

\* The body names a room and a task (personne and commentaire only fill
\* columns that nothing reads).
EnregistrerAction(p, n) ==
    LET ids == IdsDe(tache, p, n)
    IN  /\ reponse = ReponseAucune
        /\ IF p \notin piece \/ ids = {}
           THEN /\ reponse' = ReponseErreur
                /\ UNCHANGED <<action, regle, sommeil, reveil>>
           ELSE LET id == CHOOSE i \in ids : TRUE
                    ligne == LigneAudit(tache, regle, action, now, id)
                IN  /\ Taille < MaxTaille
                    /\ action' = action \cup {[id_tache |-> id, horodatage |-> now]}
                    /\ regle' = IF CompletionEndort(tache[id])
                                THEN ReglesEndormies(regle, id) ELSE regle
                    /\ sommeil' = IF EstPonctuelle(ligne.intervalle)
                                  THEN sommeil \cup {id} ELSE sommeil
                    /\ reveil' = reveil \ {id}
                    /\ reponse' = ReponseOk
        /\ UNCHANGED <<schema, piece, tache, prochainId, now, eval, meteo>>

(***************************************************************************)
(* GET /majordome/audit                                                     *)
(***************************************************************************)
\* The sequences that hold each element of S exactly once: the query has no
\* ORDER BY, so the rows come in any order.
Ordres(S) ==
    {f \in [1..Cardinality(S) -> S] : \A i, j \in 1..Cardinality(S) : i # j => f[i] # f[j]}

\* jour_index, heure and mois come from datetime.now(), read at the hour
\* maintenant when the handler starts.
Contexte(lat, fourni, maintenant) ==
    [meteo |-> ContexteMeteo(lat, fourni), jour |-> JourIndex(maintenant),
     heure |-> HeureDuJour(maintenant), mois |-> MoisDuJour(maintenant)]

Pluie3Gel0 ==
    Succes([precipitation_sum |-> Some(Some(3)), windspeed_10m_max |-> Some(Some(0)),
            temperature_2m_min |-> Some(Some(0))])

\* The audits requested: the room filter (none, empty, or a room) and what the
\* weather provider answers.
FiltresAudit == {None, Some(<<>>), Some(Cuisine)}
ReponsesMeteo == {Echec, Pluie3Gel0}

\* The hours that pass between datetime.now() and the NOW() of the task
\* query: the foyer_config query and the provider's answer come in between.
RetardsSql == {0, 1}

\* The loop over the rows, the sort and the cut.  The answer keeps, beside
\* "priorites", what they were computed from: the rows, the context and the
\* verdicts.
ReponseAudit(filtre, ctx, lignes) ==
    LET analyses == [i \in 1..Len(lignes) |-> AnalyserTache(lignes[i], ctx)]
    IN  [type |-> "audit", filtre |-> filtre, ctx |-> ctx, lignes |-> lignes,
         analyses |-> analyses, priorites |-> Priorites(lignes, analyses, filtre)]

\* ordre: the order in which the query, which has no ORDER BY, returns its
\* rows.  retard: the hours between the two readings of the clock.  now is
\* the hour of the task query, which is also the hour of the answer;
\* datetime.now() was read retard hours before it, in every request.
AuditGlobal(filtre, fourni, ordre, retard) ==
    LET ctx == Contexte(TRUE, fourni, now - retard)
        lignes == [i \in 1..Len(ordre) |-> LigneAudit(tache, regle, action, now, ordre[i])]
    IN  /\ reponse = ReponseAucune
        /\ reponse' = ReponseAudit(filtre, ctx, lignes)
        /\ UNCHANGED <<schema, piece, tache, regle, action, prochainId, now,
                       sommeil, reveil, eval, meteo>>

\* "if piece: sql += ' AND p.nom = %s'"
IdsFiltres(filtre) ==
    IF filtre = None \/ filtre = Some(<<>>) THEN DOMAIN tache
    ELSE {id \in DOMAIN tache : tache[id].piece = Val(filtre)}

(***************************************************************************)
(* Time passes.                                                             *)
(***************************************************************************)
\* The clock advances between two requests.
Tick ==
    /\ reponse = ReponseAucune
    /\ Taille < MaxTaille
    /\ now' = now + PasHorloge
    /\ UNCHANGED <<schema, piece, tache, regle, action, prochainId, reponse,
                   sommeil, reveil, eval, meteo>>

\* The handler returns: its answer is sent and the next request can start.
Repondre ==
    /\ reponse # ReponseAucune
    /\ reponse' = ReponseAucune
    /\ UNCHANGED <<schema, piece, tache, regle, action, prochainId, now,
                   sommeil, reveil, eval, meteo>>

(***************************************************************************)
(* Specification of the catalog and its handlers.                           *)
(***************************************************************************)
EvalVide == [fait |-> FALSE]
MeteoVide == [fait |-> FALSE]

\* The catalog after a first import of the rooms: no task, no rule, no action.
InitSauf ==
    /\ piece = {Jardin, Cuisine}
    /\ tache = <<>>
    /\ regle = <<>>
    /\ action = {}
    /\ prochainId = 1
    /\ now = HeureDebut
    /\ reponse = ReponseAucune
    /\ sommeil = {}
    /\ reveil = {}

Init ==
    /\ InitSauf
    /\ schema \in SchemasRegle
    /\ eval = EvalVide
    /\ meteo = MeteoVide

Next ==
    \/ \E fichier \in Fichiers : ImportYaml(fichier)
    \/ \E nouvelle \in CorpsTaches : CreerTache(nouvelle)
    \/ \E id \in 1..MaxId : ActiverTache(id)
    \/ \E id \in 1..MaxId : SupprimerTache(id)
    \/ \E nouvelle \in CorpsTaches : EnregistrerAction(nouvelle.piece, nouvelle.tache)
    \/ \E filtre \in FiltresAudit, fourni \in ReponsesMeteo, retard \in RetardsSql :
          \E ordre \in Ordres(IdsFiltres(filtre)) : AuditGlobal(filtre, fourni, ordre, retard)
    \/ Tick
    \/ Repondre

Spec == Init /\ [][Next]_vars


(***************************************************************************)
(* Specifications of the evaluator alone: Init draws the task row, the      *)
(* action draws the context and applies _analyser_tache.  The catalog stays *)
(* empty in them, so that the schema of regle plays no part.                *)
(***************************************************************************)
MaxIntervalle == 3
MaxJours == 5

LigneEval(act, nuit, pluie, vent, gel, nom, jour, intervalle, jours, base, hygiene) ==
    [id_tache |-> 1, nom |-> nom, piece |-> Jardin, intervalle |-> intervalle,
     jour_semaine |-> jour, priorite_base |-> Some(base), active |-> act,
     priorite_hygiene |-> Some(hygiene), eviter_pluie |-> pluie, eviter_vent |-> vent,
     eviter_neige |-> FALSE, eviter_gel |-> gel, eviter_nuit |-> nuit,
     jours_ecoules |-> jours]

Actives == {Some(TRUE), Some(FALSE), None}

\* Rows for the gates: every combination of the gate inputs, a few scoring inputs.
LignesPortes ==
    { LigneEval(act, nuit, pluie, vent, gel, nom, jour, intervalle, jours, 50, 3) :
        act \in Actives, nuit \in BOOLEAN, pluie \in BOOLEAN, vent \in BOOLEAN,
        gel \in BOOLEAN, nom \in {NomArroser, NomTondre, NomVitres},
        jour \in {None, Some(Mardi)}, intervalle \in {None, Some(1)},
        jours \in {None, Some(1)} }

ContextesPortes ==
    { [meteo |-> [pluie |-> p, vent |-> v, gel |-> g], jour |-> 1, heure |-> h, mois |-> m] :
        p \in BOOLEAN, v \in BOOLEAN, g \in BOOLEAN, h \in {6, 7, 19, 20}, m \in {2, 3} }

\* Rows for the scores: every combination of the scoring inputs, one gate.
\* Intervals at and beyond the number of days taken for a task that was never
\* completed: no request validates interval_jours.
IntervallesLongs == {SentinelleJamais, SentinelleJamais + 1}

LignesScore ==
    { LigneEval(act, FALSE, pluie, FALSE, FALSE, NomVitres, jour, intervalle, jours, base, hygiene) :
        act \in {Some(TRUE), None}, pluie \in BOOLEAN,
        jour \in {None, Some(Mardi), Some(friday)},
        intervalle \in {None, Some(0), Some(7)} \cup {Some(i) : i \in 1..MaxIntervalle}
                          \cup {Some(i) : i \in IntervallesLongs},
        jours \in {None} \cup {Some(d) : d \in 0..MaxJours},
        base \in {50, 60}, hygiene \in {3, 4} }

ContextesScore ==
    { [meteo |-> [pluie |-> p, vent |-> FALSE, gel |-> FALSE], jour |-> j, heure |-> 8, mois |-> 3] :
        p \in BOOLEAN, j \in {0, 1} }

Evaluer(ctx) ==
    /\ ~eval.fait
    /\ eval' = [fait |-> TRUE, tache |-> eval.tache, ctx |-> ctx,
                res |-> AnalyserTache(eval.tache, ctx)]
    /\ UNCHANGED <<schema, piece, tache, regle, action, prochainId, now, reponse,
                   sommeil, reveil, meteo>>

InitPortes ==
    /\ InitSauf
    /\ schema = "cascade"
    /\ meteo = MeteoVide
    /\ eval \in {[fait |-> FALSE, tache |-> t] : t \in LignesPortes}

NextPortes == \E ctx \in ContextesPortes : Evaluer(ctx)

SpecPortes == InitPortes /\ [][NextPortes]_vars

InitScore ==
    /\ InitSauf
    /\ schema = "cascade"
    /\ meteo = MeteoVide
    /\ eval \in {[fait |-> FALSE, tache |-> t] : t \in LignesScore}

NextScore == \E ctx \in ContextesScore : Evaluer(ctx)

SpecScore == InitScore /\ [][NextScore]_vars

\* Rows for the weekday pin: every key of JOURS_MAP, a capitalised token and
\* no pin, with every kind of interval and history, one gate.
JoursEpingles == {Some(k) : k \in DOMAIN JOURS_MAP} \cup {Some(Mardi), None}

LignesJour ==
    { LigneEval(act, FALSE, pluie, FALSE, FALSE, NomVitres, jour, intervalle, jours, base, 3) :
        act \in {Some(TRUE), None}, pluie \in BOOLEAN, jour \in JoursEpingles,
        intervalle \in {None, Some(0), Some(1), Some(7)},
        jours \in {None, Some(0), Some(3)}, base \in {50, 60} }

ContextesJour ==
    { [meteo |-> [pluie |-> p, vent |-> FALSE, gel |-> FALSE], jour |-> j, heure |-> 8, mois |-> 3] :
        p \in BOOLEAN, j \in 0..6 }

InitJour ==
    /\ InitSauf
    /\ schema = "cascade"
    /\ meteo = MeteoVide
    /\ eval \in {[fait |-> FALSE, tache |-> t] : t \in LignesJour}

NextJour == \E ctx \in ContextesJour : Evaluer(ctx)

SpecJour == InitJour /\ [][NextJour]_vars

(***************************************************************************)
(* Specification of the elapsed-days column alone: Init draws the instant   *)
(* of the last completion, the instant of the audit (hours since the epoch, *)
(* Paris wall time) and the lag of the database session's zone behind       *)
(* Paris; the action computes jours_ecoules as the query does and evaluates *)
(* a daily task on it.                                                      *)
(***************************************************************************)
MaxHeure == 47

\* NOW() AT TIME ZONE 'Europe/Paris' is a timestamp without zone; subtracting
\* the timestamptz date_derniere casts it back in the session's zone, which
\* adds the lag of that zone behind Paris (0 for a Paris session, 1 or 2 for
\* a UTC session in winter or summer).
DecalagesSession == {0, 1, 2}

JoursEcoulesSession(maintenant, derniere, decalage) ==
    JoursEcoules(maintenant + decalage, derniere)

LigneQuotidienne(jours) ==
    LigneEval(Some(TRUE), FALSE, FALSE, FALSE, FALSE, NomVitres, None, Some(1),
              Some(jours), PrioriteBaseDefaut, 3)

ContexteA(maintenant) ==
    [meteo |-> [pluie |-> FALSE, vent |-> FALSE, gel |-> FALSE],
     jour |-> JourIndex(maintenant), heure |-> HeureDuJour(maintenant),
     mois |-> MoisDuJour(maintenant)]

CalculerJours ==
    /\ ~eval.fait
    /\ LET j == JoursEcoulesSession(eval.maintenant, eval.derniere, eval.decalage)
       IN  eval' = [fait |-> TRUE, derniere |-> eval.derniere,
                    maintenant |-> eval.maintenant, decalage |-> eval.decalage,
                    jours |-> j,
                    res |-> AnalyserTache(LigneQuotidienne(j), ContexteA(eval.maintenant))]
    /\ UNCHANGED <<schema, piece, tache, regle, action, prochainId, now, reponse,
                   sommeil, reveil, meteo>>

InitHorloge ==
    /\ InitSauf
    /\ schema = "cascade"
    /\ meteo = MeteoVide
    /\ eval \in {[fait |-> FALSE, derniere |-> d, maintenant |-> n, decalage |-> x] :
                    d \in 0..MaxHeure, n \in 0..MaxHeure, x \in DecalagesSession}
    /\ eval.derniere <= eval.maintenant

NextHorloge == CalculerJours

SpecHorloge == InitHorloge /\ [][NextHorloge]_vars

(***************************************************************************)
(* Specification of the context builder alone: Init draws the provider's    *)
(* answer, the action builds ctx_meteo.                                     *)
(***************************************************************************)
ValeursPluie == {None, Some(None), Some(Some(0)), Some(Some(2)), Some(Some(3))}
ValeursVent == {None, Some(None), Some(Some(0)), Some(Some(50)), Some(Some(51))}
ValeursTmin == {None, Some(None), Some(Some(0 - 3)), Some(Some(0)), Some(Some(1)),
                Some(Some(2)), Some(Some(10))}

ReponsesFournisseur ==
    {Echec} \cup
    { Succes([precipitation_sum |-> p, windspeed_10m_max |-> v, temperature_2m_min |-> t]) :
        p \in ValeursPluie, v \in ValeursVent, t \in ValeursTmin }

ConstruireContexte ==
    /\ ~meteo.fait
    /\ meteo' = [fait |-> TRUE, lat |-> meteo.lat, fourni |-> meteo.fourni,
                 ctx |-> ContexteMeteo(meteo.lat, meteo.fourni)]
    /\ UNCHANGED <<schema, piece, tache, regle, action, prochainId, now, reponse,
                   sommeil, reveil, eval>>

InitMeteo ==
    /\ InitSauf
    /\ schema = "cascade"
    /\ eval = EvalVide
    /\ meteo \in {[fait |-> FALSE, lat |-> l, fourni |-> f] :
                    l \in BOOLEAN, f \in ReponsesFournisseur}

NextMeteo == ConstruireContexte

SpecMeteo == InitMeteo /\ [][NextMeteo]_vars

(***************************************************************************)
(* Specification of the ranker alone: Init draws the room filter and the    *)
(* rows that the task query returned, in the order it returned them; the    *)
(* action runs the loop, the sort and the cut of audit_global on them.      *)
(***************************************************************************)
MaxCourtes == 3
MaxLignes == LimiteAudit + 2

\* The names of the rows, by position: "Tb", "Ta", "Td", "Tc", ... so that
\* the order of the rows is in places the order of the names and in places
\* not.
NomRang(i) ==
    <<"T", LettresMinuscules[IF i % 2 = 1 THEN i + 1 ELSE i - 1]>>

\* A daily task of the kitchen completed jours days ago: not visible for 0
\* (done today), score 80 for 1, 85 for 2.
LigneRang(i, jours) ==
    [LigneEval(Some(TRUE), FALSE, FALSE, FALSE, FALSE, NomRang(i), None, Some(1),
               Some(jours), PrioriteBaseDefaut, 3)
        EXCEPT !.id_tache = i, !.piece = Cuisine]

\* Short lists of every kind of row; long lists, beyond the limit of the
\* audit, of visible rows after a first row of any kind.
JoursRang ==
    UNION {[1..n -> 0..2] : n \in 0..MaxCourtes}
    \cup UNION { {<<j>> \o l : j \in 0..2, l \in [1..(n - 1) -> 1..2]} :
                  n \in (LimiteAudit + 1)..MaxLignes }

ClasserLignes ==
    /\ ~eval.fait
    /\ eval' = [eval EXCEPT !.fait = TRUE]
    /\ reponse' = ReponseAudit(eval.filtre, ContexteA(now), eval.lignes)
    /\ UNCHANGED <<schema, piece, tache, regle, action, prochainId, now,
                   sommeil, reveil, meteo>>

InitRang ==
    /\ InitSauf
    /\ schema = "cascade"
    /\ meteo = MeteoVide
    /\ eval \in {[fait |-> FALSE, filtre |-> f,
                   lignes |-> [i \in 1..Len(js) |-> LigneRang(i, js[i])]] :
                    f \in FiltresAudit, js \in JoursRang}

NextRang == ClasserLignes

SpecRang == InitRang /\ [][NextRang]_vars


(***************************************************************************)
(* Properties.  The gates are restated here from their description, not     *)
(* taken from the evaluator's definitions.                                  *)
(***************************************************************************)
NomsArrosageTonte == {NomArroser, NomTondre}

GateSommeil(t) == t.active = Some(FALSE)
GateNuit(t, ctx) == t.eviter_nuit /\ (ctx.heure >= 20 \/ ctx.heure < 7)
GateHiver(t, ctx) == ctx.mois \in {12, 1, 2} /\ t.eviter_gel /\ t.nom \in NomsArrosageTonte
GatePluie(t, ctx) == t.eviter_pluie /\ ctx.meteo.pluie
GateVent(t, ctx) == t.eviter_vent /\ ctx.meteo.vent
GateGel(t, ctx) == t.eviter_gel /\ ctx.meteo.gel

UneGate(t, ctx) ==
    \/ GateSommeil(t) \/ GateNuit(t, ctx) \/ GateHiver(t, ctx)
    \/ GatePluie(t, ctx) \/ GateVent(t, ctx) \/ GateGel(t, ctx)

\* The reason of the first gate that applies, in the order sleep, night,
\* winter, rain, wind, frost.
RaisonPremiereGate(t, ctx) ==
    IF GateSommeil(t) THEN "Tache ponctuelle en sommeil (deja faite)."
    ELSE IF GateNuit(t, ctx) THEN "Reporte : Il fait nuit."
    ELSE IF GateHiver(t, ctx) THEN "Reporte : Saison hivernale."
    ELSE IF GatePluie(t, ctx) THEN "Reporte : Il pleut."
    ELSE IF GateVent(t, ctx) THEN "Reporte : Trop de vent."
    ELSE "Reporte : Risque de gel."

\* C2: whenever at least one gate applies, the verdict is not visible,
\* whatever the interval, history, priorities and weekday pin are, and its
\* reason is that of the first applicable gate in the order sleep, night,
\* winter, rain, wind, frost.
ThmC2_GatesCachent ==
    (eval.fait /\ UneGate(eval.tache, eval.ctx)) =>
        /\ eval.res.visible = FALSE
        /\ eval.res.raison.msg = RaisonPremiereGate(eval.tache, eval.ctx)

\* A pinned task on its day, never completed, awake, by day, with rain, wind
\* and frost gates all applying in March: hidden, and the reason is the rain.
WitC2_PluieAvantVent ==
    /\ eval.fait
    /\ eval.tache.active = Some(TRUE)
    /\ eval.tache.jour_semaine = Some(Mardi)
    /\ eval.ctx.heure = 19
    /\ eval.ctx.mois = 3
    /\ GatePluie(eval.tache, eval.ctx)
    /\ GateVent(eval.tache, eval.ctx)
    /\ GateGel(eval.tache, eval.ctx)
    /\ eval.res.visible = FALSE
    /\ eval.res.raison.msg = "Reporte : Il pleut."

\* The preconditions of the scoring claims: active, recurring with interval
\* I > 0, no applicable gate, no weekday pin.
RecurrenteSansGate(t, ctx) ==
    /\ t.active # Some(FALSE)
    /\ t.intervalle # None
    /\ Val(t.intervalle) > 0
    /\ ~UneGate(t, ctx)
    /\ t.jour_semaine = None

ScoreAttendu(t, ecoules) ==
    Val(t.priorite_base) + Val(t.priorite_hygiene) * 10 + (ecoules - Val(t.intervalle)) * 5

\* C6: for an active recurring task with interval I > 0, no applicable gate,
\* no weekday pin and a last completion d days ago, the verdict is visible
\* exactly when d >= I, and then the score is
\* rule_priority_base + hygiene_priority*10 + (d - I)*5.
ThmC6_SeuilEtScore ==
    (/\ eval.fait
     /\ RecurrenteSansGate(eval.tache, eval.ctx)
     /\ eval.tache.jours_ecoules # None) =>
        LET d == Val(eval.tache.jours_ecoules)
            I == Val(eval.tache.intervalle)
        IN  /\ eval.res.visible = (d >= I)
            /\ eval.res.visible => eval.res.score = ScoreAttendu(eval.tache, d)

\* d = I + 2 with I = 3, base 50, hygiene 4: visible with score 90 + 2*5.
WitC6_RetardDeDeux ==
    /\ eval.fait
    /\ RecurrenteSansGate(eval.tache, eval.ctx)
    /\ eval.tache.intervalle = Some(3)
    /\ eval.tache.jours_ecoules = Some(5)
    /\ eval.tache.priorite_base = Some(50)
    /\ eval.tache.priorite_hygiene = Some(4)
    /\ eval.res.visible
    /\ eval.res.score = 100

JamaisFaiteEnRetard(t, res) ==
    /\ res.visible
    /\ res.score = ScoreAttendu(t, 999)
    /\ res.raison = [msg |-> "En retard de {} jours.", arg |-> <<999 - Val(t.intervalle)>>]

\* C7 (as claimed): an active recurring task, of any interval I > 0, that was
\* never completed, with no applicable gate and no weekday pin, is visible
\* with score rule_priority_base + hygiene_priority*10 + (999 - I)*5 and the
\* reason "overdue by 999 - I days".
CexC7_JamaisFaiteToutIntervalle ==
    (/\ eval.fait
     /\ RecurrenteSansGate(eval.tache, eval.ctx)
     /\ eval.tache.jours_ecoules = None) =>
        JamaisFaiteEnRetard(eval.tache, eval.res)

\* C7 (amended): such a task is visible, with that score and that reason,
\* exactly when its interval is at most 999; with a longer interval it is
\* not visible, its score is 0 and it is reported as up to date.
ThmC7_JamaisFaiteJusquA999 ==
    (/\ eval.fait
     /\ RecurrenteSansGate(eval.tache, eval.ctx)
     /\ eval.tache.jours_ecoules = None) =>
        IF Val(eval.tache.intervalle) <= 999
        THEN JamaisFaiteEnRetard(eval.tache, eval.res)
        ELSE /\ ~eval.res.visible
             /\ eval.res.score = 0
             /\ eval.res.raison = [msg |-> "A jour (Fait il y a {}j).", arg |-> None]

\* Scenario A: interval 7, hygiene 4, base 50, never completed: 5050,
\* overdue by 992 days.
WitC7_ScenarioA ==
    /\ eval.fait
    /\ RecurrenteSansGate(eval.tache, eval.ctx)
    /\ eval.tache.intervalle = Some(7)
    /\ eval.tache.priorite_hygiene = Some(4)
    /\ eval.tache.priorite_base = Some(50)
    /\ eval.tache.jours_ecoules = None
    /\ eval.res.visible
    /\ eval.res.score = 5050
    /\ eval.res.raison.arg = <<992>>

\* The value a returned summary holds under a key, when it holds one.
Fourni(champ) == Val(Val(champ))
Present(champ) == champ # None /\ Val(champ) # None

\* C9: is_raining = (precipitation_mm > 2), is_windy = (max_wind_kmh > 50)
\* and is_freezing = (min_temp_c < 2) for every weather summary the provider
\* returns, 0 included, and the three flags are false when the provider
\* fails or returns nothing.
CexC9_DrapeauxMeteo ==
    meteo.fait =>
        IF meteo.lat /\ meteo.fourni.ok
        THEN LET d == meteo.fourni.daily
             IN  /\ Present(d.precipitation_sum) =>
                       meteo.ctx.pluie = (Fourni(d.precipitation_sum) > 2)
                 /\ Present(d.windspeed_10m_max) =>
                       meteo.ctx.vent = (Fourni(d.windspeed_10m_max) > 50)
                 /\ Present(d.temperature_2m_min) =>
                       meteo.ctx.gel = (Fourni(d.temperature_2m_min) < 2)
        ELSE meteo.ctx = [pluie |-> FALSE, vent |-> FALSE, gel |-> FALSE]


(***************************************************************************)
(* Properties of the audit's answer.                                        *)
(***************************************************************************)
EstAudit == reponse.type = "audit"

\* The index of the row an item of the answer was built from.
LigneDe(item) ==
    CHOOSE i \in 1..Len(reponse.lignes) :
        reponse.lignes[i].piece = item.piece /\ reponse.lignes[i].nom = item.tache

Semaine == {<<"l","u","n","d","i">>, <<"m","a","r","d","i">>,
            <<"m","e","r","c","r","e","d","i">>, <<"j","e","u","d","i">>,
            <<"v","e","n","d","r","e","d","i">>, <<"s","a","m","e","d","i">>,
            <<"d","i","m","a","n","c","h","e">>}

\* The row is pinned to a weekday (its token names one, in any case).
Epinglee(ligne) ==
    ligne.jour_semaine # None /\ Lower(Val(ligne.jour_semaine)) \in Semaine

\* The row is scored on its interval: recurring and not pinned.
ParIntervalle(ligne) ==
    ligne.jour_semaine = None /\ ligne.intervalle # None /\ Val(ligne.intervalle) > 0

\* C1 (as claimed): a one-off task that was completed is not visible in any
\* later audit until it is activated again.
CexC1_PonctuelleFaiteCachee ==
    EstAudit =>
        \A i \in 1..Len(reponse.lignes) :
            reponse.lignes[i].id_tache \in sommeil => ~reponse.analyses[i].visible

\* C3 (as claimed): a visible weekday-pinned task is placed before every
\* visible interval-scored task.
CexC3_EpingleeAvantIntervalle ==
    EstAudit =>
        \A i, j \in 1..Len(reponse.priorites) :
            (/\ Epinglee(reponse.lignes[LigneDe(reponse.priorites[j])])
             /\ ParIntervalle(reponse.lignes[LigneDe(reponse.priorites[i])])) => j < i

\* C3 (amended): a visible weekday-pinned task has score 1000; it is placed
\* before every visible task whose score is below 1000 and after every
\* visible task whose score is above 1000.
ThmC3_EpingleeSelonMille ==
    EstAudit =>
        \A i, j \in 1..Len(reponse.priorites) :
            Epinglee(reponse.lignes[LigneDe(reponse.priorites[j])]) =>
                /\ reponse.priorites[j].score = 1000
                /\ reponse.priorites[i].score < 1000 => j < i
                /\ reponse.priorites[i].score > 1000 => i < j

\* A ranking of a pinned task and of an interval-scored task that is one day
\* late: the row of the pinned task came second, and it is placed first.
WitC3_EpingleePuisIntervalle ==
    /\ EstAudit
    /\ Len(reponse.priorites) = 2
    /\ Epinglee(reponse.lignes[LigneDe(reponse.priorites[1])])
    /\ LigneDe(reponse.priorites[1]) = 2
    /\ reponse.priorites[1].score = 1000
    /\ ParIntervalle(reponse.lignes[LigneDe(reponse.priorites[2])])
    /\ reponse.lignes[LigneDe(reponse.priorites[2])].jours_ecoules # None
    /\ reponse.priorites[2].score < 1000

\* (room name, task name) ascending.
PieceTacheAvant(a, b) ==
    \/ TexteAvant(a.piece, b.piece)
    \/ (a.piece = b.piece /\ TexteAvant(a.tache, b.tache))

ScoresDecroissants ==
    \A i, j \in 1..Len(reponse.priorites) :
        i < j => reponse.priorites[i].score >= reponse.priorites[j].score

\* C4 (as claimed): the answer is ordered by score descending and two items
\* of equal score are ordered by (room name, task name) ascending.
CexC4_EgalitesParPieceEtNom ==
    EstAudit =>
        /\ ScoresDecroissants
        /\ \A i, j \in 1..Len(reponse.priorites) :
              (i < j /\ reponse.priorites[i].score = reponse.priorites[j].score) =>
                  PieceTacheAvant(reponse.priorites[i], reponse.priorites[j])

\* The rows whose verdict is visible, and the number of items the answer may
\* hold: 10, or any number when a room is named.
LignesVisibles == {i \in 1..Len(reponse.lignes) : reponse.analyses[i].visible}

LimiteReponse ==
    IF reponse.filtre # None /\ reponse.filtre # Some(<<>>)
    THEN Cardinality(LignesVisibles) ELSE 10

\* Row i is ranked before row j: a higher score, or the same score and an
\* earlier place among the rows returned.
AvantRang(i, j) ==
    \/ reponse.analyses[i].score > reponse.analyses[j].score
    \/ (reponse.analyses[i].score = reponse.analyses[j].score /\ i < j)

LignesRendues == {LigneDe(reponse.priorites[k]) : k \in 1..Len(reponse.priorites)}

\* Rows k and k+1 exchanged.
Echanger(s, k) ==
    [i \in 1..Len(s) |-> IF i = k THEN s[k + 1] ELSE IF i = k + 1 THEN s[k] ELSE s[i]]

\* C4 (amended): the answer is ordered by score descending and two items of
\* equal score stand in the order in which the query returned their rows.
\* It holds the first items of that ranking of the visible rows: the first 10
\* without a room, all of them with one.  Had the query returned two
\* adjacent rows in the other order, the answer would be the same, unless
\* the two are visible with equal scores and the first of them is in the
\* answer: then it would differ.
ThmC4_EgalitesDansLOrdreDesLignes ==
    EstAudit =>
        /\ ScoresDecroissants
        /\ \A k \in 1..Len(reponse.priorites) :
              /\ LigneDe(reponse.priorites[k]) \in LignesVisibles
              /\ reponse.priorites[k].score =
                     reponse.analyses[LigneDe(reponse.priorites[k])].score
        /\ \A i, j \in 1..Len(reponse.priorites) :
              i < j => AvantRang(LigneDe(reponse.priorites[i]), LigneDe(reponse.priorites[j]))
        /\ Len(reponse.priorites) =
              IF Cardinality(LignesVisibles) < LimiteReponse
              THEN Cardinality(LignesVisibles) ELSE LimiteReponse
        /\ \A i \in LignesVisibles \ LignesRendues :
              \A j \in LignesRendues : AvantRang(j, i)
        /\ \A k \in 1..(Len(reponse.lignes) - 1) :
              LET autre == Priorites(Echanger(reponse.lignes, k),
                                     Echanger(reponse.analyses, k), reponse.filtre)
              IN  IF /\ k \in LignesVisibles
                     /\ (k + 1) \in LignesVisibles
                     /\ reponse.analyses[k].score = reponse.analyses[k + 1].score
                  THEN (autre # reponse.priorites) <=> (k \in LignesRendues)
                  ELSE autre = reponse.priorites

\* Twelve visible rows and no room: ten items.  The last item ties with a
\* row that is left out, which came later; the first two items tie and stand
\* in the order of their rows, which is not the order of their names.
WitC4_EgaliteALaCoupe ==
    /\ EstAudit
    /\ reponse.filtre = None
    /\ Cardinality(LignesVisibles) = 12
    /\ Len(reponse.priorites) = 10
    /\ \E i \in LignesVisibles \ LignesRendues :
          /\ reponse.analyses[i].score = reponse.priorites[10].score
          /\ LigneDe(reponse.priorites[10]) < i
    /\ reponse.priorites[1].score = reponse.priorites[2].score
    /\ LigneDe(reponse.priorites[1]) < LigneDe(reponse.priorites[2])
    /\ PieceTacheAvant(reponse.priorites[2], reponse.priorites[1])

\* C5: every item of the audit's answer comes from a row whose verdict is
\* visible; no row whose verdict is not visible appears in it.
ThmC5_SeulementVisibles ==
    EstAudit =>
        /\ \A k \in 1..Len(reponse.priorites) :
              \E i \in 1..Len(reponse.lignes) :
                  /\ reponse.lignes[i].piece = reponse.priorites[k].piece
                  /\ reponse.lignes[i].nom = reponse.priorites[k].tache
                  /\ reponse.analyses[i].visible
        /\ \A i \in 1..Len(reponse.lignes) :
              ~reponse.analyses[i].visible =>
                  \A k \in 1..Len(reponse.priorites) :
                      ~(/\ reponse.lignes[i].piece = reponse.priorites[k].piece
                        /\ reponse.lignes[i].nom = reponse.priorites[k].tache)

\* An audit of two rows, one visible and one not: the answer holds one item.
WitC5_UneSurDeux ==
    /\ EstAudit
    /\ Len(reponse.lignes) = 2
    /\ reponse.analyses[1].visible
    /\ ~reponse.analyses[2].visible
    /\ Len(reponse.priorites) = 1

\* C8 (as claimed): a task with a negative interval or a weekday token that
\* names no weekday is refused at creation, so no evaluation runs on one.
CexC8_EntreeInvalideRefusee ==
    EstAudit =>
        \A i \in 1..Len(reponse.lignes) :
            /\ reponse.lignes[i].intervalle # None => Val(reponse.lignes[i].intervalle) >= 0
            /\ reponse.lignes[i].jour_semaine # None => Epinglee(reponse.lignes[i])

\* C10: a one-off task that was completed and then activated again is, with
\* no applicable gate and no weekday pin, visible with score 900, for every
\* number of days since its completion, 0 included.
ThmC10_ReactiveeVisible ==
    EstAudit =>
        \A i \in 1..Len(reponse.lignes) :
            LET l == reponse.lignes[i] IN
            (/\ l.id_tache \in reveil
             /\ (l.intervalle = None \/ l.intervalle = Some(0))
             /\ ~UneGate(l, reponse.ctx)
             /\ l.jour_semaine = None) =>
                (reponse.analyses[i].visible /\ reponse.analyses[i].score = 900)

\* A task created one-off through the API, completed, activated again and
\* audited on the day of its completion: 900.
WitC10_ReactiveeLeJourMeme ==
    /\ EstAudit
    /\ \E i \in 1..Len(reponse.lignes) :
          /\ reponse.lignes[i].id_tache \in reveil
          /\ reponse.lignes[i].active = Some(TRUE)
          /\ reponse.lignes[i].jours_ecoules = Some(0)
          /\ reponse.analyses[i].visible
          /\ reponse.analyses[i].score = 900


\* The index of the weekday a row is pinned to.
JourEpingle(t) == JOURS_MAP[Lower(Val(t.jour_semaine))]

EpingleSansGate(t, ctx) ==
    /\ t.jour_semaine # None
    /\ Lower(Val(t.jour_semaine)) \in DOMAIN JOURS_MAP
    /\ ~UneGate(t, ctx)

\* C11: for every active task with a weekday pin and no applicable gate, the
\* verdict is visible exactly when the pinned weekday is the context's
\* weekday, and its score is then 1000 whatever the interval, history and
\* priorities are (a recurring task completed today included); otherwise it
\* is not visible and the hinted number of days is (target - current) mod 7,
\* which lies in 1..6.
ThmC11_EpingleJourJ ==
    (eval.fait /\ EpingleSansGate(eval.tache, eval.ctx)) =>
        LET cible == JourEpingle(eval.tache)
            actuel == eval.ctx.jour
        IN  /\ eval.res.visible <=> (cible = actuel)
            /\ (cible = actuel) => eval.res.score = 1000
            /\ (cible # actuel) =>
                  /\ eval.res.echeance.arg[1] = (cible - actuel) % 7
                  /\ eval.res.echeance.arg[1] \in 1..6

\* A recurring task completed today and pinned to the context's weekday is
\* visible with score 1000.
WitC11_JourJFaiteAujourdhui ==
    /\ eval.fait
    /\ EpingleSansGate(eval.tache, eval.ctx)
    /\ eval.tache.intervalle = Some(7)
    /\ eval.tache.jours_ecoules = Some(0)
    /\ JourEpingle(eval.tache) = eval.ctx.jour
    /\ eval.res.visible
    /\ eval.res.score = 1000


\* The calendar day (in Paris) an instant falls on.
JourCalendaire(h) == h \div 24

\* C12: the days-since-last-completion value given to the evaluator is the
\* difference in local calendar days between the evaluation instant and the
\* most recent completion: it is 0 exactly when the last completion happened
\* on the evaluation's calendar day, so a recurring task completed on an
\* earlier calendar day is never reported as already done today.
CexC12_JoursCalendaires ==
    eval.fait =>
        /\ eval.jours = JourCalendaire(eval.maintenant) - JourCalendaire(eval.derniere)
        /\ (JourCalendaire(eval.derniere) < JourCalendaire(eval.maintenant))
              => eval.res.raison.msg # "Deja fait aujourd'hui."


\* The interval the evaluator scores a task on: the rule's interval if set,
\* else the task's.
IntervalleEffectif(id) == LigneAudit(tache, regle, action, now, id).intervalle

\* The step makes the rule of the task dormant.
Endort(id) ==
    /\ id \in DOMAIN regle
    /\ id \in DOMAIN regle'
    /\ regle[id].active # Some(FALSE)
    /\ regle'[id].active = Some(FALSE)

\* C13: the completion handler and the evaluator agree on which tasks are
\* one-off: in every catalog reachable through creation (API or YAML
\* import), completion and activation, a completion sets active = false only
\* for a task whose effective interval is null or 0, so no task evaluated as
\* recurring is ever made dormant by completing it.
CexC13_EndormieSeulementPonctuelle ==
    [][\A id \in DOMAIN tache :
          Endort(id) =>
              (IntervalleEffectif(id) = None \/ Val(IntervalleEffectif(id)) = 0)]_vars

=============================================================================
